---- MODULE Spec2Model ----
(***************************************************************************)
(* ccsgp: a convenience layer that shapes plot requests for gnuplot.       *)
(*                                                                         *)
(* Modelled: MyPlot (src/classes.py) and the public functions make_plot,   *)
(* repeat_plot and make_panel (src/ccsgp.py).                              *)
(*                                                                         *)
(* Conventions                                                             *)
(*  - a python str that the code inspects character by character (the      *)
(*    gnuplot property string) is a sequence of one-character strings;     *)
(*  - a numpy array of data points is a sequence of rows <<x, y, dy, bw>>; *)
(*  - a Gnuplot.Data item is the tuple <<array, title, using, with>>, and  *)
(*    python's None in the draw list is the empty tuple;                   *)
(*  - the gnuplot session self.gp is the sequence of everything sent to    *)
(*    it, interleaved with the other side effects of the program (external *)
(*    commands, hdf5 export, messages), each a tuple <<kind, what, arg>>;  *)
(*  - screen margins are exact rationals: inputs are thousandths of the    *)
(*    screen, derived values are numerators over Den(n) = 2 * 1000 * n;    *)
(*    floating-point rounding of the arithmetic itself is not modelled,    *)
(*    the rounding of the '%f' and '%e' conversions is;                    *)
(*  - a numpy array is a plain value here: that python cannot hash one, so  *)
(*    that the set comprehension of initData raises TypeError for a titled *)
(*    dataset, is not modelled;                                            *)
(*  - initData calls its helpers as _using, _with_errs, _plot_errs without *)
(*    the self. qualifier; they are modelled as the methods of that name.  *)
(***************************************************************************)
EXTENDS Integers, Sequences, FiniteSets, TLC

VARIABLES
  mode,      \* what the caller holds: "none", "plot" (MyPlot of make_plot),
             \* "panel" (inside make_panel's loop), "done", "data" (SpecData)
  name,      \* MyPlot.name
  epsname,   \* MyPlot.epsname, <<basename, extension>>
  nPanels,   \* MyPlot.nPanels
  nLabels,   \* MyPlot.nLabels
  data,      \* MyPlot.data, the draw list handed to gp.plot
  dataSets,  \* MyPlot.dataSets, set of <<title, array>>
  dsets,     \* the datasets last passed to initData
  gp,        \* everything sent to gnuplot, with the other side effects
  files,     \* output file -> number of the plot() run that wrote it (0: none)
  run,       \* number of plot() calls that reached hardcopy so far
  calls,     \* number of further calls made on the returned MyPlot
  h5py,      \* what happened in the last hdf5(): "none","ok","ImportError","IOError","h5pyError"
  exported,  \* <<title, array>> pairs written by the last hdf5()
  raised,    \* exception that left the last call ("none" if it returned)
  call,      \* the last call made: <<operation, argument, argument>>
  kw,        \* make_panel's kwargs: [lm, rm, gpcalls]
  nSubPlots, \* make_panel's nSubPlots
  todo,      \* make_panel: the subplots of dpt_dict still to draw
  margins,   \* make_panel: <<sub_lm, sub_rm>> of every iteration so far
  prop,      \* SpecErrs: the property string given to _with_errs
  errs       \* SpecErrs: what _with_errs returned

vars == <<mode, name, epsname, nPanels, nLabels, data, dataSets, dsets, gp,
          files, run, calls, h5py, exported, raised, call, kw, nSubPlots, todo,
          margins, prop, errs>>

----------------------------------------------------------------------------
(* Bounds *)

MaxSets == 2      \* datasets per initData call (SpecData)
MaxOpts == 2      \* options in a property string (SpecErrs)
MaxPanels == 3    \* subplots of a make_panel call
MaxCalls == 2     \* calls made on a MyPlot after it was returned

----------------------------------------------------------------------------
(* Sequences helpers *)

Range(s) == { s[i] : i \in 1..Len(s) }

SeqsUpTo(S, n) == UNION { [1..k -> S] : k \in 0..n }

Min(S) == CHOOSE x \in S : \A y \in S : x <= y
Max(S) == CHOOSE x \in S : \A y \in S : x >= y

----------------------------------------------------------------------------
(* Property strings *)

DigitChars == <<"0", "1", "2", "3", "4", "5", "6", "7", "8", "9">>
IsDigit(c) == c \in Range(DigitChars)

\* str(n) for n >= 0
RECURSIVE Digits(_)
Digits(n) == IF n < 10 THEN << DigitChars[n + 1] >>
             ELSE Digits(n \div 10) \o << DigitChars[(n % 10) + 1] >>

\* one gnuplot option "<key> <n>", e.g. "lw 4"
Opt(key, n) == key \o <<" ">> \o Digits(n)

\* ' '.join(opts)
RECURSIVE Join(_)
Join(opts) == IF opts = << >> THEN << >>
              ELSE IF Len(opts) = 1 THEN opts[1]
              ELSE opts[1] \o <<" ">> \o Join(Tail(opts))

lw == <<"l", "w">>
lc == <<"l", "c">>
pt == <<"p", "t">>

\* re.compile('lw \d').search(prop): the leftmost match, or << >> for None
re_search_lw(p) ==
  LET hits == { i \in 1..(Len(p) - 3) :
                  /\ p[i] = "l" /\ p[i+1] = "w" /\ p[i+2] = " "
                  /\ IsDigit(p[i+3]) }
  IN  IF hits = {} THEN << >> ELSE SubSeq(p, Min(hits), Min(hits) + 3)

\* MyPlot._with_errs: <<format text, the %s argument>>; None.group() raises
_with_errs(p) ==
  LET m == re_search_lw(p)
  IN  IF m = << >> THEN << "AttributeError", << >> >>
      ELSE << "yerrorbars pt 0 lt 1 lc 0 lw ", << m[Len(m)] >> >>

----------------------------------------------------------------------------
(* Datasets *)

Styles == {"points", "lines", "linespoints", "yerrorbars", "boxerrorbars"}

ArrNoErr == << <<1, 5, 0, 0>> >>
ArrErr   == << <<2, 7, 1, 0>>, <<3, 6, 2, 0>> >>
Arrays   == {ArrNoErr, ArrErr}

DefaultProp == Join(<< Opt(lw, 4), Opt(pt, 18) >>)

\* a dataset as make_plot's caller gives it: one entry of each parallel list
DataSet(d, s, p, t) == [d |-> d, s |-> s, p |-> p, t |-> t]

AllDataSets == { DataSet(d, s, DefaultProp, "a") : d \in Arrays, s \in Styles }

None == << >>
DefaultTitle == "<default>"

\* column c (0-based) of a numpy array: data.T[c], v[:, c]
Column(d, c) == [i \in 1..Len(d) |-> d[i][c + 1]]

RECURSIVE Sum(_)
Sum(s) == IF s = << >> THEN 0 ELSE Head(s) + Sum(Tail(s))

\* MyPlot._using
_using(style) == IF style # "boxerrorbars" THEN "1:2:3" ELSE "1:2:3:4"

\* MyPlot._plot_errs
_plot_errs(d, style) ==
  /\ style # "boxerrorbars"
  /\ style # "yerrorbars"
  /\ Sum(Column(d, 2)) > 0

\* izip(data, styles, properties, titles): a one-shot iterator. A pass over it
\* yields what is left and leaves nothing behind.
izip(ds) == ds
AfterPass(it) == << >>

\* Gnuplot.Data(d, inline = 1, title = t, using = _using(s), with_ = ' '.join([s, p]))
MainItem(z) == << z.d, z.t, _using(z.s), << z.s, z.p >> >>
\* Gnuplot.Data(d, inline = 1, using = _using(s), with_ = _with_errs(p))
SecItem(z) == << z.d, DefaultTitle, _using(z.s), _with_errs(z.p) >>

main_data(zipped) == [i \in 1..Len(zipped) |-> MainItem(zipped[i])]

sec_data(zipped) ==
  [i \in 1..Len(zipped) |->
     IF _plot_errs(zipped[i].d, zipped[i].s) THEN SecItem(zipped[i]) ELSE None]

\* utils.zip_flat: zip the two lists and flatten the pairs
zip_flat(a, b) ==
  LET n == IF Len(a) < Len(b) THEN Len(a) ELSE Len(b)
  IN  [i \in 1..(2 * n) |-> IF i % 2 = 1 THEN a[(i + 1) \div 2] ELSE b[i \div 2]]

\* filter(None, l)
filter_None(l) == SelectSeq(l, LAMBDA x : x # None)

\* MyPlot.initData: the values it assigns to self.dataSets and self.data
initData_dataSets(ds) == { << ds[i].t, ds[i].d >> : i \in { j \in 1..Len(ds) : ds[j].t # "" } }

initData_data(ds) ==
  LET zipped == izip(ds)
      main   == main_data(zipped)
      sec    == sec_data(AfterPass(zipped))
  IN  filter_None(zip_flat(main, sec))

----------------------------------------------------------------------------
(* Number formatting *)

\* '%f' % (num / den): the value rounded to six decimals, in millionths
\* (computed in two steps of a thousand to stay within 32-bit integers)
FmtF(num, den) ==
  LET t == 1000 * num
  IN  1000 * (t \div den) + (2 * 1000 * (t % den) + den) \div (2 * den)

RECURSIVE Pow10For(_, _)
Pow10For(x, s) == IF x < 10000000 * s THEN s ELSE Pow10For(x, 10 * s)

\* '%e' % x for an integer x: seven significant digits are kept
FmtE(x) ==
  LET a == IF x < 0 THEN -x ELSE x
      s == Pow10For(a, 1)
      r == ((2 * a + s) \div (2 * s)) * s
  IN  IF x < 0 THEN -r ELSE r

----------------------------------------------------------------------------
(* MyPlot: every method maps the object (and the files it writes) to the   *)
(* object after the call                                                   *)

Names == {"test", "fig"}
Exts == {".eps", ".pdf", ".png", ".jpg", ".hdf5"}
FileNames == Names \X Exts

\* config.basic_setup
basic_setup == << <<"bars small", 0>>, <<"grid", 0>> >>

\* self.gp(cmd)
gp_send(self, kind, what, arg) == [self EXCEPT !.gp = Append(@, <<kind, what, arg>>)]

\* MyPlot.setter (called _setter in ccsgp.py): 'set %s' for every entry
RECURSIVE setter(_, _)
setter(self, list) ==
  IF list = << >> THEN self
  ELSE setter(gp_send(self, "set", list[1][1], list[1][2]), Tail(list))

\* MyPlot.__init__
MyPlot(nm, fs, r) ==
  setter([name |-> nm, epsname |-> <<nm, ".eps">>, gp |-> << >>, nPanels |-> 0,
          nLabels |-> 0, data |-> << >>, dataSets |-> {}, dsets |-> << >>,
          files |-> fs, run |-> r, h5py |-> "none", exported |-> {},
          raised |-> "none"],
         << <<"title", 0>> >> \o basic_setup)

\* MyPlot.initData
initData(self, ds) ==
  [self EXCEPT !.dataSets = initData_dataSets(ds),
               !.data = initData_data(ds),
               !.dsets = ds]

\* MyPlot.setLabel
setLabel(self, label) ==
  LET s == [self EXCEPT !.nLabels = @ + 1]
  IN  gp_send(s, "set", "label", s.nLabels)

RangeCmd(axis) == IF axis = "x" THEN "xrange" ELSE "yrange"

\* the comprehension of setAxisRange: [ n for v in self.data for n in v[:, 1] ]
AxisVals(dat) == UNION { Range(Column(dat[i][1], 1)) : i \in 1..Len(dat) }

\* MyPlot.setAxisRange; rng is None or <<lo, hi>>; min([]) raises ValueError
setAxisRange(self, rng, axis) ==
  IF rng = None /\ AxisVals(self.data) = {}
  THEN [self EXCEPT !.raised = "ValueError"]
  ELSE LET r == IF rng = None
                THEN << Min(AxisVals(self.data)), Max(AxisVals(self.data)) >>
                ELSE rng
       IN  gp_send([self EXCEPT !.raised = "none"], "set", RangeCmd(axis),
                   << FmtE(r[1]), FmtE(r[2]) >>)

\* self.gp.hardcopy(self.epsname, ...): gnuplot writes the eps file
gp_hardcopy(self) ==
  LET r == self.run + 1
  IN  [gp_send(self, "hardcopy", "eps", self.epsname)
         EXCEPT !.run = r, !.files = [@ EXCEPT ![self.epsname] = r]]

\* MyPlot.convert: ps2pdf epsname -> name.pdf, then convert name.pdf -> name.png, name.jpg
convert(self) ==
  LET pdf == <<self.name, ".pdf">>
      png == <<self.name, ".png">>
      jpg == <<self.name, ".jpg">>
      s1 == gp_send(self, "call", "ps2pdf", <<self.epsname, pdf>>)
      s2 == [s1 EXCEPT !.files = [@ EXCEPT ![pdf] = self.files[self.epsname]]]
      s3 == gp_send(s2, "call", "convert", <<pdf, png>>)
      s4 == [s3 EXCEPT !.files = [@ EXCEPT ![png] = s2.files[pdf]]]
      s5 == gp_send(s4, "call", "convert", <<pdf, jpg>>)
  IN  [s5 EXCEPT !.files = [@ EXCEPT ![jpg] = s2.files[pdf]]]

\* two datasets of the same title: the second create_dataset fails
Clash(S) == \E a \in S, b \in S : a # b /\ a[1] = b[1]

\* what create_dataset has written when the loop over self.dataSets ends
\* (a set is iterated in no particular order)
WrittenChoices(S) ==
  IF ~Clash(S) THEN {S}
  ELSE { X \in SUBSET S :
           /\ ~Clash(X)
           /\ \E e \in S \ X : \E x \in X : x[1] = e[1] }

\* the exception that leaves hdf5(): env is what the environment does to it
PropagateImportError(env, clash) ==
  IF env = "ImportError" THEN "ImportError"
  ELSE IF env = "IOError" THEN "IOError"
  ELSE IF clash THEN "h5pyError" ELSE "none"

hdf5_raises(env, clash) ==
  IF env = "ImportError" THEN "none"
  ELSE IF env = "IOError" THEN "IOError"
  ELSE IF clash THEN "h5pyError" ELSE "none"

\* MyPlot.hdf5
hdf5(self, env, written) ==
  LET h5 == <<self.name, ".hdf5">>
      clash == Clash(self.dataSets)
      s0 == [gp_send(self, "hdf5", "import h5py", 0)
               EXCEPT !.h5py = env, !.exported = {},
                      !.raised = hdf5_raises(env, clash)]
  IN  IF env = "ImportError"
      THEN gp_send(s0, "print", "install h5py to also save an hdf5 file of your plot!", 0)
      ELSE IF env = "IOError"
      THEN gp_send(s0, "print", "h5py imported but error raised!", 0)
      ELSE LET s1 == [s0 EXCEPT !.files = [@ EXCEPT ![h5] = self.run],
                                !.exported = written]
           IN  IF clash
               THEN gp_send(s1, "print", "h5py imported but error raised!", 0)
               ELSE s1

\* MyPlot.hardcopy
hardcopy(self, env, written) == hdf5(convert(gp_hardcopy(self)), env, written)

\* the test of MyPlot.plot
HardcopyFirstPanelToo(n) == n <= 1
NeedsHardcopy(n) == n < 1

\* MyPlot.plot
plot(self, env, written) ==
  LET s == gp_send(self, "plot", "data", Len(self.data))
  IN  IF NeedsHardcopy(self.nPanels) THEN hardcopy(s, env, written) ELSE s

----------------------------------------------------------------------------
(* Keyword arguments and the methods ccsgp.py calls that classes.py lacks *)

\* config.default_margins, in thousandths of the screen
default_margins == [lm |-> 150, rm |-> 950]

GpCalls == { << >>, << <<"bars large", 0>> >> }

DefaultKw == [lm |-> default_margins.lm, rm |-> default_margins.rm, gpcalls |-> << >>]

\* MyPlot.getMargin(key, **kwargs)
getMargin(key, k) == IF key = "lmargin" THEN k.lm ELSE k.rm

\* MyPlot.prepare_plot(**kwargs): key, axis labels and margins of the request
prepare_plot(self, k) ==
  setter(self, << <<"key", 0>>, <<"xlabel", 0>>, <<"ylabel", 0>>,
                  <<"lmargin", FmtF(k.lm, 1000)>>, <<"rmargin", FmtF(k.rm, 1000)>> >>)

----------------------------------------------------------------------------
(* make_panel's layout arithmetic. Margins are thousandths of the screen;  *)
(* sub_lm and sub_rm are numerators over Den(n), so that (rm - lm) / n and *)
(* gap / 2 are exact.                                                      *)

gap == 10   \* gap = 0.01, in thousandths

Den(n) == 2 * 1000 * n
Scaled(m, n) == m * 2 * n

\* w = (rm - lm) / nSubPlots
PanelW(lm, rm, n) == 2 * (rm - lm)

\* gap/2.
HalfGap(n) == gap * n

sub_lm_whole_gap(lm, rm, n, k) == Scaled(lm, n) + k * PanelW(lm, rm, n) + 2 * HalfGap(n)

\* sub_lm = lm + plt.nPanels * w + gap/2.
sub_lm(lm, rm, n, k) == Scaled(lm, n) + k * PanelW(lm, rm, n) + HalfGap(n)

\* sub_rm = lm + (plt.nPanels + 1) * w - gap/2.
sub_rm(lm, rm, n, k) == Scaled(lm, n) + (k + 1) * PanelW(lm, rm, n) - HalfGap(n)

merge_y_always(self) ==
  gp_send(gp_send(gp_send(self, "set", "format y \" \"", 0), "unset", "ylabel", 0),
          "unset", "key", 0)

\* if plt.nPanels > 0: the y-axis is shared with the first subplot
merge_y(self) ==
  IF self.nPanels > 0
  THEN gp_send(gp_send(gp_send(self, "set", "format y \" \"", 0), "unset", "ylabel", 0),
               "unset", "key", 0)
  ELSE self

\* one iteration of make_panel's loop, up to the plot() call
subplot_setup(self, dpt, k, n) ==
  LET s1 == gp_send(self, "unset", "label", 0)
      s2 == setLabel(s1, "subplot_title")
      s3 == initData(s2, dpt)
      s4 == prepare_plot(s3, k)
      l  == getMargin("lmargin", k)
      r  == getMargin("rmargin", k)
      s5 == setter(s4, << <<"lmargin at screen", FmtF(sub_lm(l, r, n, s4.nPanels), Den(n))>>,
                          <<"rmargin at screen", FmtF(sub_rm(l, r, n, s4.nPanels), Den(n))>> >>)
      s6 == merge_y(s5)
      s7 == setter(s6, k.gpcalls)
  IN  [s7 EXCEPT !.nPanels = @ + 1]

----------------------------------------------------------------------------
(* Inputs *)

P1 == DataSet(ArrErr, "points", DefaultProp, "a")
P2 == DataSet(ArrNoErr, "yerrorbars", DefaultProp, "")
P3 == DataSet(ArrNoErr, "lines", DefaultProp, "a")
ApiSets == {P1, P2, P3}

PanelDpts == { << >>, <<P1, P2>> }

MarginPairs == { <<100, 104>>, <<100, 108>>, <<100, 900>>, <<150, 950>> }

H5Envs == {"ok", "ImportError", "IOError"}

Ranges == { None, <<0, 10>>, <<1, 123456789>> }

OptVals == {1, 4, 10, 18}
OptKeys == {lw, lc, pt}

\* property strings of up to MaxOpts options with distinct keys
OptLists ==
  { os \in UNION { [1..k -> OptKeys \X OptVals] : k \in 1..MaxOpts } :
      \A i \in 1..Len(os), j \in 1..Len(os) : i # j => os[i][1] # os[j][1] }

PropStrings == { Join([i \in 1..Len(os) |-> Opt(os[i][1], os[i][2])]) : os \in OptLists }

----------------------------------------------------------------------------
(* State *)

Self == [name |-> name, epsname |-> epsname, gp |-> gp, nPanels |-> nPanels,
         nLabels |-> nLabels, data |-> data, dataSets |-> dataSets,
         dsets |-> dsets, files |-> files, run |-> run, h5py |-> h5py,
         exported |-> exported, raised |-> raised]

Becomes(s) ==
  /\ name' = s.name /\ epsname' = s.epsname /\ gp' = s.gp
  /\ nPanels' = s.nPanels /\ nLabels' = s.nLabels /\ data' = s.data
  /\ dataSets' = s.dataSets /\ dsets' = s.dsets /\ files' = s.files
  /\ run' = s.run /\ h5py' = s.h5py /\ exported' = s.exported
  /\ raised' = s.raised

NoFiles == [f \in FileNames |-> 0]

InitCommon ==
  /\ name = "" /\ epsname = <<"", "">> /\ gp = << >>
  /\ nPanels = 0 /\ nLabels = 0 /\ data = << >> /\ dataSets = {}
  /\ dsets = << >> /\ files = NoFiles /\ run = 0 /\ calls = 0
  /\ h5py = "none" /\ exported = {} /\ raised = "none"
  /\ call = <<"none", 0, 0>>
  /\ kw = DefaultKw /\ nSubPlots = 0 /\ todo = << >> /\ margins = << >>
  /\ prop = << >> /\ errs = << >>

panelVars == <<kw, nSubPlots, todo, margins>>
errVars == <<prop, errs>>

----------------------------------------------------------------------------
(* The public functions of ccsgp.py *)

Init == mode = "none" /\ InitCommon

\* make_plot(data, properties, titles, name = nm)
make_plot(nm, ds, env) ==
  /\ mode = "none"
  /\ \E written \in WrittenChoices(initData_dataSets(ds)) :
       LET s0 == MyPlot(nm, files, run)
           s1 == initData(s0, ds)
           s2 == prepare_plot(s1, DefaultKw)
           s3 == setter(s2, DefaultKw.gpcalls)
           s4 == plot(s3, env, written)
       IN  /\ Becomes(s4)
           /\ mode' = IF s4.raised = "none" THEN "plot" ELSE "failed"
  /\ call' = <<"make_plot", nm, 0>>
  /\ UNCHANGED <<calls, panelVars, errVars>>

\* repeat_plot(plt, nm)
repeat_plot(nm, env) ==
  /\ mode = "plot"
  /\ calls < MaxCalls
  /\ \E written \in WrittenChoices(dataSets) :
       LET s0 == gp_send(Self, "set", "terminal dumb", 0)
           s1 == [s0 EXCEPT !.epsname = <<nm, ".eps">>]
           s2 == prepare_plot(s1, DefaultKw)
           s3 == setter(s2, DefaultKw.gpcalls)
           s4 == plot(s3, env, written)
       IN  Becomes(s4)
  /\ calls' = calls + 1
  /\ call' = <<"repeat_plot", nm, 0>>
  /\ UNCHANGED <<mode, panelVars, errVars>>

\* make_panel(dpt_dict, **k): from the construction to the multiplot directive
make_panel_begin(nm, dpts, k) ==
  /\ mode = "none"
  /\ LET s0 == MyPlot(nm, files, run)
         n  == Len(dpts)
         s1 == setter(s0, << <<"terminal postscript eps size", FmtF(20 * n, 3)>>,
                             <<"output", s0.epsname>>,
                             <<"multiplot layout 1,n rowsfirst", n>> >>)
     IN  /\ Becomes(s1)
         /\ nSubPlots' = n
  /\ kw' = k
  /\ todo' = dpts
  /\ margins' = << >>
  /\ mode' = "panel"
  /\ call' = <<"make_panel", nm, 0>>
  /\ UNCHANGED <<calls, errVars>>

\* one iteration of the loop over dpt_dict
make_panel_subplot ==
  /\ mode = "panel"
  /\ todo # << >>
  /\ \E env \in H5Envs : \E written \in WrittenChoices(initData_dataSets(Head(todo))) :
       LET l == getMargin("lmargin", kw)
           r == getMargin("rmargin", kw)
           s == subplot_setup(Self, Head(todo), kw, nSubPlots)
       IN  /\ Becomes(plot(s, env, written))
           /\ margins' = Append(margins, << sub_lm(l, r, nSubPlots, nPanels),
                                            sub_rm(l, r, nSubPlots, nPanels) >>)
  /\ todo' = Tail(todo)
  /\ UNCHANGED <<mode, calls, call, kw, nSubPlots, errVars>>

\* after the loop: plt.gp('unset multiplot; set output')
make_panel_end ==
  /\ mode = "panel"
  /\ todo = << >>
  /\ Becomes([gp_send(Self, "unset", "multiplot; set output", 0)
                EXCEPT !.run = @ + 1,
                       !.files = [@ EXCEPT ![epsname] = run + 1]])
  /\ mode' = "done"
  /\ UNCHANGED <<calls, call, panelVars, errVars>>

Next ==
  \/ \E nm \in Names, ds \in SeqsUpTo(ApiSets, MaxSets), env \in H5Envs :
       make_plot(nm, ds, env)
  \/ \E nm \in Names, env \in H5Envs : repeat_plot(nm, env)
  \/ \E nm \in Names, dpts \in SeqsUpTo(PanelDpts, MaxPanels), m \in MarginPairs, g \in GpCalls :
       make_panel_begin(nm, dpts, [lm |-> m[1], rm |-> m[2], gpcalls |-> g])
  \/ make_panel_subplot
  \/ make_panel_end

Spec == Init /\ [][Next]_vars

----------------------------------------------------------------------------
(* MyPlot.initData and MyPlot.setAxisRange called on a MyPlot *)

InitData ==
  /\ mode = "data"
  /\ InitCommon

initDataCall(ds) ==
  /\ mode = "data"
  /\ calls = 0
  /\ Becomes(initData(MyPlot("test", files, run), ds))
  /\ calls' = 1
  /\ call' = <<"initData", 0, 0>>
  /\ UNCHANGED <<mode, panelVars, errVars>>

setAxisRangeCall(rng, axis) ==
  /\ mode = "data"
  /\ calls >= 1
  /\ calls < 1 + MaxCalls
  /\ Becomes(setAxisRange(Self, rng, axis))
  /\ calls' = calls + 1
  /\ call' = <<"setAxisRange", rng, axis>>
  /\ UNCHANGED <<mode, panelVars, errVars>>

NextData ==
  \/ \E ds \in SeqsUpTo(AllDataSets, MaxSets) : initDataCall(ds)
  \/ \E rng \in Ranges, axis \in {"x", "y"} : setAxisRangeCall(rng, axis)

SpecData == InitData /\ [][NextData]_vars

----------------------------------------------------------------------------
(* MyPlot._with_errs applied to a property string *)

InitErrs ==
  /\ mode = "errs"
  /\ name = "" /\ epsname = <<"", "">> /\ gp = << >>
  /\ nPanels = 0 /\ nLabels = 0 /\ data = << >> /\ dataSets = {}
  /\ dsets = << >> /\ files = NoFiles /\ run = 0 /\ calls = 0
  /\ h5py = "none" /\ exported = {} /\ raised = "none"
  /\ call = <<"none", 0, 0>>
  /\ kw = DefaultKw /\ nSubPlots = 0 /\ todo = << >> /\ margins = << >>
  /\ prop \in PropStrings
  /\ errs = << >>

with_errsCall ==
  /\ mode = "errs"
  /\ errs = << >>
  /\ errs' = _with_errs(prop)
  /\ raised' = IF _with_errs(prop)[1] = "AttributeError" THEN "AttributeError" ELSE "none"
  /\ call' = <<"_with_errs", 0, 0>>
  /\ UNCHANGED <<mode, name, epsname, nPanels, nLabels, data, dataSets, dsets, gp,
                 files, run, calls, h5py, exported, kw, nSubPlots, todo, margins, prop>>

NextErrs == with_errsCall

SpecErrs == InitErrs /\ [][NextErrs]_vars

----------------------------------------------------------------------------
(* Properties *)

\* positions in the gnuplot session of the entries <<kind, what, _>>
At(kind, what) == { i \in 1..Len(gp) : gp[i][1] = kind /\ gp[i][2] = what }
OfKind(kind) == { i \in 1..Len(gp) : gp[i][1] = kind }

InPanel == mode \in {"panel", "done"}

\* w >= gap/2, with w = (rm - lm) / n
WideEnough == 2 * (kw.rm - kw.lm) >= nSubPlots * gap

\* the layout of claim C1 for the panels drawn so far, in units of 1 / Den(n)
PanelLayout ==
  LET n  == nSubPlots
      lm == 2 * n * kw.lm
      rm == 2 * n * kw.rm
      w  == 2 * (kw.rm - kw.lm)
      g  == 2 * n * gap
  IN  /\ Len(margins) = nPanels
      /\ \A k \in 1..Len(margins) :
           /\ 2 * margins[k][1] = 2 * lm + 2 * (k - 1) * w + g
           /\ 2 * margins[k][2] = 2 * lm + 2 * k * w - g
           /\ margins[k][2] - margins[k][1] = w - g
           /\ lm <= margins[k][1] /\ margins[k][1] <= rm
           /\ lm <= margins[k][2] /\ margins[k][2] <= rm
           /\ k < Len(margins) =>
                /\ margins[k][2] < margins[k + 1][1]
                /\ margins[k + 1][1] - margins[k][2] = g

SegStart(i) == Max({ j \in At("unset", "label") : j < i })
PlotNo(i) == Cardinality({ j \in OfKind("plot") : j <= i })
PrepareWhats == {"key", "xlabel", "ylabel", "lmargin", "rmargin"}

\* C2: in make_panel every subplot but the first gets 'set format y " "',
\* 'unset ylabel', 'unset key', in this order, after its prepare_plot and before
\* its plot; the first subplot gets none of them.
C2_SharedAxis ==
  InPanel =>
    \A i \in OfKind("plot") :
      LET seg  == { j \in SegStart(i)..i : TRUE }
          fmt  == seg \cap At("set", "format y \" \"")
          uyl  == seg \cap At("unset", "ylabel")
          ukey == seg \cap At("unset", "key")
          prep == { j \in seg : gp[j][1] = "set" /\ gp[j][2] \in PrepareWhats }
      IN  IF PlotNo(i) = 1
          THEN fmt = {} /\ uyl = {} /\ ukey = {}
          ELSE /\ Cardinality(fmt) = 1 /\ Cardinality(uyl) = 1 /\ Cardinality(ukey) = 1
               /\ prep # {}
               /\ \A a \in fmt, b \in uyl, c \in ukey :
                    /\ Max(prep) < a /\ a < b /\ b < c /\ c < i

C2_Witness == mode = "done" /\ nPanels >= 2 /\ Cardinality(OfKind("plot")) >= 2

\* the five steps of hardcopy follow the plot at position i
HardcopyFollows(i) ==
  /\ i + 5 <= Len(gp)
  /\ gp[i + 1][1] = "hardcopy"
  /\ gp[i + 2][1] = "call" /\ gp[i + 2][2] = "ps2pdf"
  /\ gp[i + 3][1] = "call" /\ gp[i + 3][2] = "convert"
  /\ gp[i + 4][1] = "call" /\ gp[i + 4][2] = "convert"
  /\ gp[i + 5][1] = "hdf5"

Titled(ds) == { << ds[i].t, ds[i].d >> : i \in { j \in 1..Len(ds) : ds[j].t # "" } }

\* C7: without h5py, hdf5() prints a message and raises nothing, the eps and
\* its conversions of this plot being written already; any other error of the
\* export reaches the caller; only datasets with a title are exported.
C7_BestEffortHdf5 ==
  /\ h5py = "ImportError" =>
       /\ raised = "none"
       /\ mode = "plot"
       /\ gp[Len(gp)][1] = "print"
       /\ gp[Len(gp)][2] = "install h5py to also save an hdf5 file of your plot!"
       /\ run >= 1
       /\ files[epsname] = run
       /\ \A e \in {".pdf", ".png", ".jpg"} : files[<<name, e>>] = run
  /\ h5py = "IOError" => raised = "IOError"
  /\ (h5py = "ok" /\ Clash(dataSets)) => raised = "h5pyError"
  /\ \A x \in exported : x[1] # "" /\ x \in Titled(dsets)

C7_Witness ==
  /\ mode = "plot" /\ h5py = "ImportError" /\ raised = "none"
  /\ calls >= 1
  /\ files[<<name, ".jpg">>] = run
  /\ \E i \in 1..Len(dsets) : dsets[i].t = ""
  /\ \E i \in 1..Len(dsets) : dsets[i].t # ""

ErrStyles == {"points", "lines", "linespoints"}

\* C3: after initData, len(self.data) is the number of datasets plus the number
\* of datasets of style points, lines or linespoints.
C3_DrawCount ==
  (mode = "data" /\ calls >= 1) =>
    Len(data) = Len(dsets) + Cardinality({ i \in 1..Len(dsets) : dsets[i].s \in ErrStyles })

\* the draw list claim C9 describes: per dataset, in input order, its
\* error-bar entry (if its errors are plotted separately) and then its main entry
RECURSIVE ErrsThenMain(_)
ErrsThenMain(ds) ==
  IF ds = << >> THEN << >>
  ELSE (IF _plot_errs(ds[1].d, ds[1].s) THEN << SecItem(ds[1]) >> ELSE << >>)
       \o << MainItem(ds[1]) >> \o ErrsThenMain(Tail(ds))

\* C9: self.data keeps the input order, holds no None, and the error-bar entry
\* of a dataset immediately precedes its main entry.
C9_ErrsBeforeMain ==
  (mode = "data" /\ calls >= 1) =>
    /\ \A i \in 1..Len(data) : data[i] # None
    /\ data = ErrsThenMain(dsets)

\* the linewidth a property string gives: all digits that follow the first 'lw '
RECURSIVE DigitRun(_)
DigitRun(s) == IF s = << >> \/ ~IsDigit(Head(s)) THEN << >>
               ELSE << Head(s) >> \o DigitRun(Tail(s))

LwHits(p) == { i \in 1..(Len(p) - 3) :
                 p[i] = "l" /\ p[i+1] = "w" /\ p[i+2] = " " /\ IsDigit(p[i+3]) }
LwGiven(p) == DigitRun(SubSeq(p, Min(LwHits(p)) + 3, Len(p)))

\* C4: _with_errs gives 'yerrorbars pt 0 lt 1 lc 0 lw N' with N the linewidth
\* of the property string, whatever its number of digits.
C4_SameLinewidth ==
  (mode = "errs" /\ errs # << >> /\ LwHits(prop) # {}) =>
    errs = << "yerrorbars pt 0 lt 1 lc 0 lw ", LwGiven(prop) >>

\* all values of column c over all datasets given to initData
AllVals(ds, c) == UNION { Range(Column(ds[i].d, c)) : i \in 1..Len(ds) }

\* C5: setAxisRange(None, axis) sets the range of that axis to the minimum and
\* maximum of the data along that axis (x: column 0, y: column 1);
\* setAxisRange(rng, axis) sets exactly [rng[0]:rng[1]].
C5_AxisRange ==
  (mode = "data" /\ call[1] = "setAxisRange" /\ dsets # << >>) =>
    LET rng  == call[2]
        axis == call[3]
        col  == IF axis = "x" THEN 0 ELSE 1
        last == gp[Len(gp)]
    IN  /\ raised = "none"
        /\ last[1] = "set" /\ last[2] = RangeCmd(axis)
        /\ IF rng = None
           THEN last[3] = << Min(AllVals(dsets, col)), Max(AllVals(dsets, col)) >>
           ELSE last[3] = rng

\* C6: after repeat_plot(plt, name) every output file of the repeated plot is
\* name + extension, no file of another basename is written, and
\* epsname == name + '.eps' still holds.
C6_NewBasename ==
  (mode = "plot" /\ call[1] = "repeat_plot" /\ h5py = "ok" /\ raised = "none") =>
    /\ epsname = <<name, ".eps">>
    /\ \A e \in Exts : files[<<call[2], e>>] = run
    /\ \A f \in FileNames : f[1] # call[2] => files[f] # run

====
